---- MODULE Spec2Model ----
(***************************************************************************)
(* The EPC medallion pipeline of housing-ai-platform: bronze.run loads the *)
(* certificate CSV into bronze.epc_raw, silver.run rebuilds                *)
(* silver.epc_clean from it, gold.run rebuilds gold.epc_features and       *)
(* gold.portfolio_agg, and run_pipeline.run calls the three in sequence.   *)
(*                                                                         *)
(* SQL values.  Every column value is a tuple: NULL is the empty tuple, a  *)
(* VARCHAR is the tuple of its characters (read_csv_auto reads an empty    *)
(* field as NULL, so no landing text is empty and not NULL), a categorical *)
(* VARCHAR whose characters no statement looks at is a one-token tuple,    *)
(* and a number n is <<n>>.  DOUBLE columns hold integer-valued numbers:   *)
(* the source texts of the model carry no decimal point.                   *)
(*                                                                         *)
(* Tables.  A table is [present, rows]; rows is a tuple that stands for    *)
(* the multiset of its rows (SQL tables have no row order), kept in the    *)
(* order of the landing rows they come from.  Only the columns that the    *)
(* statements under study read or write are carried.                       *)
(***************************************************************************)
EXTENDS Integers, Sequences, FiniteSets, TLC

\* ------------------------------------------------------------------ bounds
MaxRows == 3
MaxRuns == 2
MaxBadCasts == 2

\* ------------------------------------------------------------------ values
NULL == <<>>

IsNull(v) == v = NULL

Digits == <<"0", "1", "2", "3", "4", "5", "6", "7", "8", "9">>

DigitChars == {Digits[d] : d \in 1..10}

IsDigit(c) == c \in DigitChars

DigitValues == [c \in DigitChars |-> (CHOOSE d \in 1..10 : Digits[d] = c) - 1]

DigitVal(c) == DigitValues[c]

\* Code point order of the characters the model's texts are written with:
\* '-' (45) < '0'..'9' (48..57) < 'x' (120).
CharCodes ==
    [c \in DigitChars \cup {"-", "x"} |->
        IF c = "-" THEN 45 ELSE IF IsDigit(c) THEN 48 + DigitVal(c) ELSE 120]

CharCode(c) == CharCodes[c]

INT32_MAX == 2147483647

RECURSIVE DigitsValue(_)
DigitsValue(t) ==
    IF t = <<>> THEN 0
    ELSE 10 * DigitsValue(SubSeq(t, 1, Len(t) - 1)) + DigitVal(t[Len(t)])

AllDigits(t) == Len(t) >= 1 /\ \A i \in 1..Len(t) : IsDigit(t[i])

\* The value of an integer literal, or NULL when the text is none: NULL
\* itself, a text with a character that is neither a digit nor a leading
\* sign, a bare sign.
ParseNumber(t) ==
    IF AllDigits(t) THEN <<DigitsValue(t)>>
    ELSE IF Len(t) >= 2 /\ t[1] = "-" /\ AllDigits(Tail(t)) THEN <<0 - DigitsValue(Tail(t))>>
    ELSE NULL

\* TRY_CAST(t AS INTEGER): the literal's value, NULL when it does not fit
\* 32 bits.
TryCastInteger(t) ==
    LET v == ParseNumber(t)
    IN  IF IsNull(v) THEN NULL
        ELSE IF v[1] > INT32_MAX \/ v[1] < 0 - INT32_MAX - 1 THEN NULL
        ELSE v

CastDoubleOrZero(t) == IF IsNull(ParseNumber(t)) THEN <<0>> ELSE ParseNumber(t)

\* TRY_CAST(t AS DOUBLE) on the same literals.
TryCastDouble(t) == ParseNumber(t)

Coalesce(v, d) == IF IsNull(v) THEN d ELSE v[1]

\* VARCHAR comparison a < b: by code point, a proper prefix first.
RECURSIVE TextLess(_, _)
TextLess(a, b) ==
    IF b = <<>> THEN FALSE
    ELSE IF a = <<>> THEN TRUE
    ELSE IF CharCode(a[1]) # CharCode(b[1]) THEN CharCode(a[1]) < CharCode(b[1])
    ELSE TextLess(Tail(a), Tail(b))

\* ------------------------------------------------------------ silver.run
SortsBeforeAscending(a, b) ==
    /\ ~IsNull(a)
    /\ IsNull(b) \/ TextLess(a, b)

\* ORDER BY LODGEMENT_DATETIME DESC over the VARCHAR column, NULL last:
\* a sorts strictly before b.
SortsBefore(a, b) ==
    /\ ~IsNull(a)
    /\ IsNull(b) \/ TextLess(b, a)

PartitionByKeyAndStamp(rows, i) ==
    {j \in 1..Len(rows) : /\ rows[j].LMK_KEY = rows[i].LMK_KEY
                          /\ rows[j].LODGEMENT_DATETIME = rows[i].LODGEMENT_DATETIME}

\* PARTITION BY LMK_KEY with the keys compared by =, which is not true of
\* two NULLs: each row without a key is a partition of its own.
PartitionByEqualKey(rows, i) ==
    {j \in 1..Len(rows) :
        \/ j = i
        \/ ~IsNull(rows[i].LMK_KEY) /\ rows[j].LMK_KEY = rows[i].LMK_KEY}

\* PARTITION BY LMK_KEY: the rows of row i's partition (NULL keys fall
\* into one partition).
PartitionOf(rows, i) == {j \in 1..Len(rows) : rows[j].LMK_KEY = rows[i].LMK_KEY}

\* Row i may be numbered 1 in its partition: none of the partition sorts
\* strictly before it.
MayBeFirst(rows, i) ==
    \A j \in PartitionOf(rows, i) :
        ~SortsBefore(rows[j].LODGEMENT_DATETIME, rows[i].LODGEMENT_DATETIME)

\* ROW_NUMBER() computed over the rows the mandatory-field filter keeps:
\* the filter first, one row of each partition after it.
RowNumberOneAfterFilter(rows) ==
    LET Kept(i) == /\ ~IsNull(rows[i].CURRENT_ENERGY_EFFICIENCY)
                   /\ ~IsNull(rows[i].POTENTIAL_ENERGY_EFFICIENCY)
                   /\ ~IsNull(rows[i].PROPERTY_TYPE)
        First(i) == /\ Kept(i)
                    /\ \A j \in PartitionOf(rows, i) :
                          Kept(j) => ~SortsBefore(rows[j].LODGEMENT_DATETIME,
                                                  rows[i].LODGEMENT_DATETIME)
    IN  {S \in SUBSET (1..Len(rows)) :
            /\ \A i \in S : First(i)
            /\ \A i \in 1..Len(rows) :
                  Cardinality(S \cap PartitionOf(rows, i)) =
                      IF \E j \in PartitionOf(rows, i) : Kept(j) THEN 1 ELSE 0}

\* The results ROW_NUMBER() can give for _rn = 1: one row of each
\* partition, first in the order. Rows that tie are numbered in an order
\* the engine does not fix, so every choice among them is a result.
RowNumberOne(rows) ==
    {S \in SUBSET (1..Len(rows)) :
        /\ \A i \in S : MayBeFirst(rows, i)
        /\ \A i \in 1..Len(rows) : Cardinality(S \cap PartitionOf(rows, i)) = 1}

MandatoryParsed(r) ==
    /\ ~IsNull(TryCastInteger(r.CURRENT_ENERGY_EFFICIENCY))
    /\ ~IsNull(TryCastInteger(r.POTENTIAL_ENERGY_EFFICIENCY))
    /\ ~IsNull(r.PROPERTY_TYPE)

\* WHERE ... IS NOT NULL of base, on the landing (text) columns.
MandatoryPresent(r) ==
    /\ ~IsNull(r.CURRENT_ENERGY_EFFICIENCY)
    /\ ~IsNull(r.POTENTIAL_ENERGY_EFFICIENCY)
    /\ ~IsNull(r.PROPERTY_TYPE)

\* The SELECT list of base.
Base(r) ==
    [lmk_key                  |-> r.LMK_KEY,
     property_type            |-> r.PROPERTY_TYPE,
     construction_age_band    |-> r.CONSTRUCTION_AGE_BAND,
     tenure                   |-> r.TENURE,
     total_floor_area         |-> TryCastDouble(r.TOTAL_FLOOR_AREA),
     num_habitable_rooms      |-> TryCastInteger(r.NUMBER_HABITABLE_ROOMS),
     current_efficiency       |-> TryCastInteger(r.CURRENT_ENERGY_EFFICIENCY),
     potential_efficiency     |-> TryCastInteger(r.POTENTIAL_ENERGY_EFFICIENCY),
     co2_current              |-> TryCastDouble(r.CO2_EMISSIONS_CURRENT),
     co2_potential            |-> TryCastDouble(r.CO2_EMISSIONS_POTENTIAL),
     heating_cost_current     |-> TryCastDouble(r.HEATING_COST_CURRENT),
     heating_cost_potential   |-> TryCastDouble(r.HEATING_COST_POTENTIAL),
     hot_water_cost_current   |-> TryCastDouble(r.HOT_WATER_COST_CURRENT),
     hot_water_cost_potential |-> TryCastDouble(r.HOT_WATER_COST_POTENTIAL),
     lighting_cost_current    |-> TryCastDouble(r.LIGHTING_COST_CURRENT),
     lighting_cost_potential  |-> TryCastDouble(r.LIGHTING_COST_POTENTIAL),
     walls_description        |-> r.WALLS_DESCRIPTION,
     roof_description         |-> r.ROOF_DESCRIPTION,
     windows_description      |-> r.WINDOWS_DESCRIPTION,
     heating_description      |-> r.MAINHEAT_DESCRIPTION,
     walls_eff_label          |-> r.WALLS_ENERGY_EFF,
     roof_eff_label           |-> r.ROOF_ENERGY_EFF,
     windows_eff_label        |-> r.WINDOWS_ENERGY_EFF,
     heating_eff_label        |-> r.MAINHEAT_ENERGY_EFF,
     hot_water_eff_label      |-> r.HOT_WATER_ENERGY_EFF,
     lighting_eff_label       |-> r.LIGHTING_ENERGY_EFF,
     main_fuel                |-> r.MAIN_FUEL]

EffScoreFromZero(label) ==
    IF label = <<"Very Good">> THEN <<4>>
    ELSE IF label = <<"Good">> THEN <<3>>
    ELSE IF label = <<"Average">> THEN <<2>>
    ELSE IF label = <<"Poor">> THEN <<1>>
    ELSE IF label = <<"Very Poor">> THEN <<0>>
    ELSE NULL

\* CASE label WHEN 'Very Good' THEN 5 WHEN 'Good' THEN 4 WHEN 'Average'
\* THEN 3 WHEN 'Poor' THEN 2 WHEN 'Very Poor' THEN 1 ELSE NULL END: the
\* label is compared as it is written.
EffScore(label) ==
    IF label = <<"Very Good">> THEN <<5>>
    ELSE IF label = <<"Good">> THEN <<4>>
    ELSE IF label = <<"Average">> THEN <<3>>
    ELSE IF label = <<"Poor">> THEN <<2>>
    ELSE IF label = <<"Very Poor">> THEN <<1>>
    ELSE NULL

TruncDiv(a, b) == IF a >= 0 THEN a \div b ELSE 0 - ((0 - a) \div b)

\* (x IS NOT NULL)::INT
NotNullInt(v) == IF IsNull(v) THEN 0 ELSE 1

\* The sum of the eight (x IS NOT NULL)::INT, over the columns of base.
QualityCount(c) ==
    NotNullInt(c.walls_description) + NotNullInt(c.roof_description)
    + NotNullInt(c.windows_description) + NotNullInt(c.heating_description)
    + NotNullInt(c.total_floor_area) + NotNullInt(c.construction_age_band)
    + NotNullInt(c.tenure) + NotNullInt(c.main_fuel)

\* a / b rounded to the nearest integer, halves away from zero (b > 0).
RoundDiv(a, b) ==
    IF a >= 0 THEN (2 * a + b) \div (2 * b)
    ELSE 0 - ((2 * (0 - a) + b) \div (2 * b))

DataQualityScoreTruncated(c) == <<TruncDiv(100 * QualityCount(c), 8)>>

\* ROUND(100.0 * (...) / 8.0)
DataQualityScore(c) == <<RoundDiv(100 * QualityCount(c), 8)>>

\* SELECT base.*, CASE ... END AS ..._eff_score, ROUND(...) AS
\* data_quality_score FROM base
CleanRow(r) ==
    LET c == Base(r)
    IN  c @@ [walls_eff_score     |-> EffScore(c.walls_eff_label),
              roof_eff_score      |-> EffScore(c.roof_eff_label),
              windows_eff_score   |-> EffScore(c.windows_eff_label),
              heating_eff_score   |-> EffScore(c.heating_eff_label),
              hot_water_eff_score |-> EffScore(c.hot_water_eff_label),
              lighting_eff_score  |-> EffScore(c.lighting_eff_label),
              data_quality_score  |-> DataQualityScore(c)]

\* CREATE TABLE silver.epc_clean AS ..., with S the rows numbered 1.
RECURSIVE EpcCleanFrom(_, _, _)
EpcCleanFrom(rows, S, i) ==
    IF i > Len(rows) THEN <<>>
    ELSE (IF i \in S /\ MandatoryPresent(rows[i]) THEN <<CleanRow(rows[i])>> ELSE <<>>)
         \o EpcCleanFrom(rows, S, i + 1)

EpcClean(rows, S) == EpcCleanFrom(rows, S, 1)

\* -------------------------------------------------------------- gold.run
Between0And100(v) == ~IsNull(v) /\ v[1] >= 0 /\ v[1] <= 100

\* v BETWEEN 1 AND 100: not true of NULL.
Between1And100(v) == ~IsNull(v) /\ v[1] >= 1 /\ v[1] <= 100

\* WHERE current_efficiency BETWEEN 1 AND 100
\*   AND potential_efficiency BETWEEN 1 AND 100
RangeFilter(c) ==
    /\ Between1And100(c.current_efficiency)
    /\ Between1And100(c.potential_efficiency)

\* (potential_efficiency - current_efficiency), of a row past RangeFilter.
RetrofitScore(c) == c.potential_efficiency[1] - c.current_efficiency[1]

RetrofitPriorityStrict(score) ==
    IF score > 20 THEN <<"High">>
    ELSE IF score > 10 THEN <<"Medium">>
    ELSE <<"Low">>

\* CASE WHEN score >= 20 THEN 'High' WHEN score >= 10 THEN 'Medium'
\* ELSE 'Low' END
RetrofitPriority(score) ==
    IF score >= 20 THEN <<"High">>
    ELSE IF score >= 10 THEN <<"Medium">>
    ELSE <<"Low">>

TotalCostPotentialNoCoalesce(c) ==
    IF \/ IsNull(c.heating_cost_potential)
       \/ IsNull(c.hot_water_cost_potential)
       \/ IsNull(c.lighting_cost_potential)
    THEN NULL
    ELSE <<c.heating_cost_potential[1] + c.hot_water_cost_potential[1]
           + c.lighting_cost_potential[1]>>

TotalCostCurrent(c) ==
    <<Coalesce(c.heating_cost_current, 0)
      + Coalesce(c.hot_water_cost_current, 0)
      + Coalesce(c.lighting_cost_current, 0)>>

TotalCostPotential(c) ==
    <<Coalesce(c.heating_cost_potential, 0)
      + Coalesce(c.hot_water_cost_potential, 0)
      + Coalesce(c.lighting_cost_potential, 0)>>

AnnualSavingsPotential(c) ==
    <<(Coalesce(c.heating_cost_current, 0) - Coalesce(c.heating_cost_potential, 0))
      + (Coalesce(c.hot_water_cost_current, 0) - Coalesce(c.hot_water_cost_potential, 0))
      + (Coalesce(c.lighting_cost_current, 0) - Coalesce(c.lighting_cost_potential, 0))>>

\* The SELECT list of gold.epc_features, of a row past RangeFilter.
FeatureRow(c) ==
    [lmk_key                  |-> c.lmk_key,
     property_type            |-> c.property_type,
     construction_age_band    |-> c.construction_age_band,
     current_efficiency       |-> c.current_efficiency,
     potential_efficiency     |-> c.potential_efficiency,
     retrofit_score           |-> <<RetrofitScore(c)>>,
     retrofit_priority        |-> RetrofitPriority(RetrofitScore(c)),
     total_cost_current       |-> TotalCostCurrent(c),
     total_cost_potential     |-> TotalCostPotential(c),
     annual_savings_potential |-> AnnualSavingsPotential(c)]

\* CREATE TABLE gold.epc_features AS SELECT ... FROM silver.epc_clean WHERE ...
RECURSIVE EpcFeatures(_)
EpcFeatures(clean) ==
    IF clean = <<>> THEN <<>>
    ELSE (IF RangeFilter(Head(clean)) THEN <<FeatureRow(Head(clean))>> ELSE <<>>)
         \o EpcFeatures(Tail(clean))

GroupKeyWithoutBand(f) == <<f.property_type, NULL, f.retrofit_priority>>

\* GROUP BY property_type, construction_age_band, retrofit_priority: the
\* key of a row (GROUP BY puts NULLs of a column in one group).
GroupKey(f) == <<f.property_type, f.construction_age_band, f.retrofit_priority>>

\* The rows of a group, as positions in the table.
GroupRows(feats, k) == {i \in 1..Len(feats) : GroupKey(feats[i]) = k}

RECURSIVE SumOver(_, _)
SumOver(g, I) ==
    IF I = {} THEN 0
    ELSE LET i == CHOOSE x \in I : TRUE IN g[i] + SumOver(g, I \ {i})

\* ROUND(AVG(x), 1) over the rows I, in tenths: the value 20.3 is 203.
RoundAvg1(g, I) == RoundDiv(10 * SumOver(g, I), Cardinality(I))

\* CREATE TABLE gold.portfolio_agg AS SELECT ... GROUP BY ...: one row a
\* group. avg_retrofit_score is in tenths. ORDER BY fixes only the order
\* the rows are stored in, which a table does not have. The averages of
\* efficiency, savings, CO2 and floor area are not carried.
PortfolioAgg(feats) ==
    LET score == [i \in 1..Len(feats) |-> feats[i].retrofit_score[1]]
    IN  {[property_type         |-> k[1],
          construction_age_band |-> k[2],
          retrofit_priority     |-> k[3],
          property_count        |-> Cardinality(GroupRows(feats, k)),
          avg_retrofit_score    |-> RoundAvg1(score, GroupRows(feats, k))]
         : k \in {GroupKey(feats[i]) : i \in 1..Len(feats)}}

\* ------------------------------------------------------------- the store
VARIABLES
    csv,        \* the rows of data/raw/certificates.csv
    bronze,     \* bronze.epc_raw
    silver,     \* silver.epc_clean
    features,   \* gold.epc_features
    agg,        \* gold.portfolio_agg
    pc,         \* where run_pipeline.run is
    out,        \* what the run has printed
    b, s, g,    \* what bronze.run, silver.run and gold.run returned
    err,        \* the stage whose exception ended the run, or NULL
    runs,       \* how many times the pipeline was started
    completed,  \* the tables as each completed run left them
    api         \* the query service: its state and its last /health answer

vars == <<csv, bronze, silver, features, agg, pc, out, b, s, g, err, runs, completed, api>>

Absent == [present |-> FALSE, rows |-> <<>>]

Table(rows) == [present |-> TRUE, rows |-> rows]

\* ------------------------------------------------------ run_pipeline.run
StageOrderSilverFirst == <<"silver", "bronze", "gold">>

\* b = bronze.run(); s = silver.run(); g = gold.run()
StageOrder == <<"bronze", "silver", "gold">>

\* Where run goes when a stage returns.
NextStage(stage) ==
    LET i == CHOOSE j \in 1..Len(StageOrder) : StageOrder[j] = stage
    IN  IF i < Len(StageOrder) THEN StageOrder[i + 1] ELSE "summary"

RaisedSwallowed(stage) == NextStage(stage)

\* Where run goes when a stage raises: nothing catches the exception, so
\* the process ends.
Raised(stage) == "aborted"

\* python -m src.etl.run_pipeline: the header is printed and the first
\* stage is called. The store is kept from one process to the next.
Launch ==
    /\ pc \in {"idle", "exit", "aborted"}
    /\ runs < MaxRuns
    /\ runs' = runs + 1
    /\ pc' = StageOrder[1]
    /\ out' = <<"pipeline.header">>
    /\ b' = NULL /\ s' = NULL /\ g' = NULL
    /\ err' = NULL
    /\ UNCHANGED <<csv, bronze, silver, features, agg, completed, api>>

\* bronze.run up to DROP TABLE IF EXISTS bronze.epc_raw. duckdb.connect
\* opens the store for writing, which no process does while the query
\* service holds it open.
BronzeStart ==
    /\ pc = "bronze"
    /\ api.state # "up"
    /\ out' = Append(out, "bronze.start")
    /\ bronze' = Absent
    /\ pc' = "bronze.create"
    /\ UNCHANGED <<csv, silver, features, agg, b, s, g, err, runs, completed, api>>

BronzeCreateSkipsRow ==
    /\ pc = "bronze.create"
    /\ bronze' = Table(IF csv = <<>> THEN <<>> ELSE Tail(csv))
    /\ b' = <<[rows |-> Len(bronze'.rows)]>>
    /\ out' = Append(out, "bronze.done")
    /\ pc' = NextStage("bronze")
    /\ UNCHANGED <<csv, silver, features, agg, s, g, err, runs, completed, api>>

\* CREATE TABLE bronze.epc_raw AS SELECT ... FROM read_csv_auto(...), the
\* counts, the report and the return.
BronzeCreate ==
    /\ pc = "bronze.create"
    /\ bronze' = Table(csv)
    /\ b' = <<[rows |-> Len(csv)]>>
    /\ out' = Append(out, "bronze.done")
    /\ pc' = NextStage("bronze")
    /\ UNCHANGED <<csv, silver, features, agg, s, g, err, runs, completed, api>>

\* read_csv_auto raises (the file is missing or unreadable, the store
\* cannot be written).
BronzeRaise ==
    /\ pc = "bronze.create"
    /\ pc' = Raised("bronze")
    /\ err' = <<"bronze">>
    /\ UNCHANGED <<csv, bronze, silver, features, agg, out, b, s, g, runs, completed, api>>

\* silver.run up to DROP TABLE IF EXISTS silver.epc_clean.
SilverStart ==
    /\ pc = "silver"
    /\ api.state # "up"
    /\ out' = Append(out, "silver.start")
    /\ silver' = Absent
    /\ pc' = "silver.create"
    /\ UNCHANGED <<csv, bronze, features, agg, b, s, g, err, runs, completed, api>>

SilverCreateCountsFiltered ==
    /\ pc = "silver.create"
    /\ bronze.present
    /\ \E S \in RowNumberOne(bronze.rows) :
          /\ silver' = Table(EpcClean(bronze.rows, S))
          /\ s' = <<[rows    |-> Len(EpcClean(bronze.rows, S)),
                     dropped |-> Cardinality(S) - Len(EpcClean(bronze.rows, S))]>>
    /\ out' = Append(out, "silver.done")
    /\ pc' = NextStage("silver")
    /\ UNCHANGED <<csv, bronze, features, agg, b, g, err, runs, completed, api>>

\* CREATE TABLE silver.epc_clean AS ..., the counts, the report and the
\* return.
SilverCreate ==
    /\ pc = "silver.create"
    /\ bronze.present
    /\ \E S \in RowNumberOne(bronze.rows) :
          /\ silver' = Table(EpcClean(bronze.rows, S))
          /\ s' = <<[rows    |-> Len(EpcClean(bronze.rows, S)),
                     dropped |-> Len(bronze.rows) - Len(EpcClean(bronze.rows, S))]>>
    /\ out' = Append(out, "silver.done")
    /\ pc' = NextStage("silver")
    /\ UNCHANGED <<csv, bronze, features, agg, b, g, err, runs, completed, api>>

\* The statement raises (bronze.epc_raw does not exist, the store cannot
\* be written).
SilverRaise ==
    /\ pc = "silver.create"
    /\ pc' = Raised("silver")
    /\ err' = <<"silver">>
    /\ UNCHANGED <<csv, bronze, silver, features, agg, out, b, s, g, runs, completed, api>>

GoldStartDropsClean ==
    /\ pc = "gold"
    /\ api.state # "up"
    /\ out' = Append(out, "gold.start")
    /\ silver' = Absent
    /\ features' = Absent
    /\ agg' = [present |-> FALSE, rows |-> {}]
    /\ pc' = "gold.features"
    /\ UNCHANGED <<csv, bronze, b, s, g, err, runs, completed, api>>

\* gold.run up to the two DROP TABLE IF EXISTS.
GoldStart ==
    /\ pc = "gold"
    /\ api.state # "up"
    /\ out' = Append(out, "gold.start")
    /\ features' = Absent
    /\ agg' = [present |-> FALSE, rows |-> {}]
    /\ pc' = "gold.features"
    /\ UNCHANGED <<csv, bronze, silver, b, s, g, err, runs, completed, api>>

\* CREATE TABLE gold.epc_features AS ...
GoldFeatures ==
    /\ pc = "gold.features"
    /\ silver.present
    /\ features' = Table(EpcFeatures(silver.rows))
    /\ pc' = "gold.agg"
    /\ UNCHANGED <<csv, bronze, silver, agg, out, b, s, g, err, runs, completed, api>>

GoldFeaturesRaise ==
    /\ pc = "gold.features"
    /\ pc' = Raised("gold")
    /\ err' = <<"gold">>
    /\ UNCHANGED <<csv, bronze, silver, features, agg, out, b, s, g, runs, completed, api>>

\* CREATE TABLE gold.portfolio_agg AS ..., the counts, the report and the
\* return.
GoldAgg ==
    /\ pc = "gold.agg"
    /\ features.present
    /\ agg' = [present |-> TRUE, rows |-> PortfolioAgg(features.rows)]
    /\ g' = <<[feature_rows |-> Len(features.rows),
               agg_segments |-> Cardinality(PortfolioAgg(features.rows))]>>
    /\ out' = Append(out, "gold.done")
    /\ pc' = NextStage("gold")
    /\ UNCHANGED <<csv, bronze, silver, features, b, s, err, runs, completed, api>>

GoldAggRaise ==
    /\ pc = "gold.agg"
    /\ pc' = Raised("gold")
    /\ err' = <<"gold">>
    /\ UNCHANGED <<csv, bronze, silver, features, agg, out, b, s, g, runs, completed, api>>

\* The PIPELINE COMPLETE block, which reads b, s and g.
Summary ==
    /\ pc = "summary"
    /\ out' = Append(out, "pipeline.complete")
    /\ pc' = "exit"
    /\ completed' = Append(completed, [clean |-> silver, features |-> features, agg |-> agg])
    /\ UNCHANGED <<csv, bronze, silver, features, agg, b, s, g, err, runs, api>>

Next ==
    \/ Launch
    \/ BronzeStart \/ BronzeCreate \/ BronzeRaise
    \/ SilverStart \/ SilverCreate \/ SilverRaise
    \/ GoldStart \/ GoldFeatures \/ GoldFeaturesRaise \/ GoldAgg \/ GoldAggRaise
    \/ Summary

\* ------------------------------------------------------------ the inputs
DefaultRow ==
    [LMK_KEY                     |-> <<"1">>,
     LODGEMENT_DATETIME          |-> <<"1", "0">>,
     PROPERTY_TYPE               |-> <<"House">>,
     CONSTRUCTION_AGE_BAND       |-> <<"1900-1929">>,
     CURRENT_ENERGY_EFFICIENCY   |-> <<"5", "0">>,
     POTENTIAL_ENERGY_EFFICIENCY |-> <<"7", "0">>,
     HEATING_COST_CURRENT        |-> NULL,
     HEATING_COST_POTENTIAL      |-> NULL,
     HOT_WATER_COST_CURRENT      |-> NULL,
     HOT_WATER_COST_POTENTIAL    |-> NULL,
     LIGHTING_COST_CURRENT       |-> NULL,
     LIGHTING_COST_POTENTIAL     |-> NULL,
     TENURE                      |-> <<"owner-occupied">>,
     TOTAL_FLOOR_AREA            |-> <<"9", "0">>,
     NUMBER_HABITABLE_ROOMS      |-> <<"4">>,
     CO2_EMISSIONS_CURRENT       |-> <<"3">>,
     CO2_EMISSIONS_POTENTIAL     |-> <<"1">>,
     WALLS_DESCRIPTION           |-> <<"text">>,
     ROOF_DESCRIPTION            |-> <<"text">>,
     WINDOWS_DESCRIPTION         |-> <<"text">>,
     MAINHEAT_DESCRIPTION        |-> <<"text">>,
     WALLS_ENERGY_EFF            |-> <<"Good">>,
     ROOF_ENERGY_EFF             |-> <<"Good">>,
     WINDOWS_ENERGY_EFF          |-> <<"Good">>,
     MAINHEAT_ENERGY_EFF         |-> <<"Good">>,
     HOT_WATER_ENERGY_EFF        |-> <<"Good">>,
     LIGHTING_ENERGY_EFF         |-> <<"Good">>,
     MAIN_FUEL                   |-> <<"mains gas">>]

\* The key of the n-th certificate.
KeyAt(n) == <<Digits[n + 1]>>

\* Tuples of at most MaxRows indices into a row domain of size n, in
\* nondecreasing order: one tuple a multiset of rows.
IndexTuples(n) ==
    {f \in UNION {[1..m -> 1..n] : m \in 0..MaxRows} :
        \A i \in 1..(Len(f) - 1) : f[i] <= f[i + 1]}

\* Duplicates: two lodgement times (fixed width, so that the text order is
\* the time order); a certificate whose rows are complete, have an
\* unparseable current efficiency, or have no property type, and a second
\* certificate whose rows are complete.
DedupStamps == << <<"0", "9">>, <<"1", "0">> >>

DedupVariants ==
    << [c |-> <<"5", "0">>, p |-> <<"7", "0">>, t |-> <<"House">>],
       [c |-> <<"x">>,      p |-> <<"7", "0">>, t |-> <<"House">>],
       [c |-> <<"5", "0">>, p |-> <<"7", "0">>, t |-> NULL] >>

DedupRows ==
    [n \in 1..(Len(DedupStamps) * (Len(DedupVariants) + 1)) |->
        LET t == (n - 1) % Len(DedupStamps)
            v == (n - 1) \div Len(DedupStamps)
            k == IF v < Len(DedupVariants) THEN 1 ELSE 2
            d == IF v < Len(DedupVariants) THEN DedupVariants[v + 1] ELSE DedupVariants[1]
        IN  [DefaultRow EXCEPT
                !.LMK_KEY                     = KeyAt(k),
                !.LODGEMENT_DATETIME          = DedupStamps[t + 1],
                !.CURRENT_ENERGY_EFFICIENCY   = d.c,
                !.POTENTIAL_ENERGY_EFFICIENCY = d.p,
                !.PROPERTY_TYPE               = d.t]]

DedupFiles == {[i \in 1..Len(f) |-> DedupRows[f[i]]] : f \in IndexTuples(Len(DedupRows))}

InitWith(files) ==
    /\ csv \in files
    /\ bronze = Absent
    /\ silver = Absent
    /\ features = Absent
    /\ agg = [present |-> FALSE, rows |-> {}]
    /\ pc = "idle"
    /\ out = <<>>
    /\ b = NULL /\ s = NULL /\ g = NULL
    /\ err = NULL
    /\ runs = 0
    /\ completed = <<>>
    /\ api = [state |-> "down", error |-> NULL, response |-> NULL]

Init == InitWith(DedupFiles)

Spec == Init /\ [][Next]_vars

\* Scores: certificates with distinct keys (the n-th row has the n-th key),
\* so that every row passes the dedup, and efficiencies that give the
\* scores 20, 21, 19, 10, 9 and -10, a potential efficiency of 101, of 0,
\* unparseable and missing, a current efficiency of -5 and unparseable,
\* and rows without a construction age band.
ScoreVariants ==
    << [c |-> <<"5", "0">>, p |-> <<"7", "0">>,      a |-> <<"1900-1929">>],
       [c |-> <<"5", "0">>, p |-> <<"7", "1">>,      a |-> <<"1900-1929">>],
       [c |-> <<"5", "0">>, p |-> <<"6", "9">>,      a |-> <<"1900-1929">>],
       [c |-> <<"5", "0">>, p |-> <<"6", "0">>,      a |-> <<"1900-1929">>],
       [c |-> <<"5", "0">>, p |-> <<"5", "9">>,      a |-> <<"1900-1929">>],
       [c |-> <<"5", "0">>, p |-> <<"4", "0">>,      a |-> <<"1900-1929">>],
       [c |-> <<"5", "0">>, p |-> <<"1", "0", "1">>, a |-> <<"1900-1929">>],
       [c |-> <<"5", "0">>, p |-> <<"0">>,           a |-> <<"1900-1929">>],
       [c |-> <<"5", "0">>, p |-> <<"x">>,           a |-> <<"1900-1929">>],
       [c |-> <<"-", "5">>, p |-> <<"7", "0">>,      a |-> <<"1900-1929">>],
       [c |-> <<"x">>,      p |-> <<"7", "0">>,      a |-> <<"1900-1929">>],
       [c |-> <<"5", "0">>, p |-> NULL,              a |-> <<"1900-1929">>],
       [c |-> <<"5", "0">>, p |-> <<"7", "0">>,      a |-> NULL],
       [c |-> <<"5", "0">>, p |-> <<"6", "0">>,      a |-> NULL] >>

ScoreFiles ==
    {[i \in 1..Len(f) |->
        [DefaultRow EXCEPT
            !.LMK_KEY                     = KeyAt(i),
            !.CURRENT_ENERGY_EFFICIENCY   = ScoreVariants[f[i]].c,
            !.POTENTIAL_ENERGY_EFFICIENCY = ScoreVariants[f[i]].p,
            !.CONSTRUCTION_AGE_BAND       = ScoreVariants[f[i]].a]]
     : f \in IndexTuples(Len(ScoreVariants))}

\* Costs: one certificate, each of its six cost texts present or not, the
\* current heating cost also unparseable.
CostFiles ==
    {<<[DefaultRow EXCEPT
            !.HEATING_COST_CURRENT     = hc,
            !.HOT_WATER_COST_CURRENT   = wc,
            !.LIGHTING_COST_CURRENT    = lc,
            !.HEATING_COST_POTENTIAL   = hp,
            !.HOT_WATER_COST_POTENTIAL = wp,
            !.LIGHTING_COST_POTENTIAL  = lp]>>
     : hc \in {NULL, <<"8", "0", "0">>, <<"x">>},
       wc \in {NULL, <<"2", "0", "0">>},
       lc \in {NULL, <<"1", "0", "0">>},
       hp \in {NULL, <<"5", "0", "0">>},
       wp \in {NULL, <<"1", "5", "0">>},
       lp \in {NULL, <<"1", "2", "0">>}}

\* Casts: one certificate; of the ten numeric columns other than the two
\* efficiencies, at most MaxBadCasts, or all but at most one, hold a text
\* that is no number, and the others a number.
CastColumns ==
    {"TOTAL_FLOOR_AREA", "NUMBER_HABITABLE_ROOMS",
     "CO2_EMISSIONS_CURRENT", "CO2_EMISSIONS_POTENTIAL",
     "HEATING_COST_CURRENT", "HEATING_COST_POTENTIAL",
     "HOT_WATER_COST_CURRENT", "HOT_WATER_COST_POTENTIAL",
     "LIGHTING_COST_CURRENT", "LIGHTING_COST_POTENTIAL"}

CastFiles ==
    {<<[c \in DOMAIN DefaultRow |->
          IF c \in bad THEN <<"x">>
          ELSE IF c \in CastColumns THEN <<"9", "0">>
          ELSE DefaultRow[c]]>>
     : bad \in {x \in SUBSET CastColumns :
                    \/ Cardinality(x) <= MaxBadCasts
                    \/ Cardinality(x) >= Cardinality(CastColumns) - 1}}

InitCast == InitWith(CastFiles)

SpecCast == InitCast /\ [][Next]_vars

\* Labels: one certificate; each of the six efficiency labels takes each
\* of the five labels of the scale, a text outside the scale, a label of
\* the scale in lower case, and no label.
Labels ==
    << <<"Very Poor">>, <<"Poor">>, <<"Average">>, <<"Good">>, <<"Very Good">>,
       <<"N/A">>, <<"good">>, NULL >>

LabelFiles ==
    {<<[DefaultRow EXCEPT
            !.WALLS_ENERGY_EFF     = Labels[m],
            !.ROOF_ENERGY_EFF      = Labels[n],
            !.WINDOWS_ENERGY_EFF   = Labels[((m + n) % Len(Labels)) + 1],
            !.MAINHEAT_ENERGY_EFF  = Labels[((m + 2 * n) % Len(Labels)) + 1],
            !.HOT_WATER_ENERGY_EFF = Labels[((2 * m + n) % Len(Labels)) + 1],
            !.LIGHTING_ENERGY_EFF  = Labels[((m + 3 * n) % Len(Labels)) + 1]]>>
     : m \in 1..Len(Labels), n \in 1..Len(Labels)}

\* Quality: one certificate; each of the eight columns of the data
\* quality score present or missing, the floor area also unparseable.
QualityColumns ==
    {"WALLS_DESCRIPTION", "ROOF_DESCRIPTION", "WINDOWS_DESCRIPTION",
     "MAINHEAT_DESCRIPTION", "TOTAL_FLOOR_AREA", "CONSTRUCTION_AGE_BAND",
     "TENURE", "MAIN_FUEL"}

QualityFiles ==
    {<<[c \in DOMAIN DefaultRow |->
          IF c \in missing THEN NULL
          ELSE IF c = "TOTAL_FLOOR_AREA" THEN area
          ELSE DefaultRow[c]]>>
     : missing \in SUBSET QualityColumns, area \in {<<"9", "0">>, <<"x">>}}

InitFields == InitWith(LabelFiles \cup QualityFiles)

SpecFields == InitFields /\ [][Next]_vars

InitScore == InitWith(ScoreFiles)

SpecScore == InitScore /\ [][Next]_vars

InitCost == InitWith(CostFiles)

SpecCost == InitCost /\ [][Next]_vars

\* Rows without a business key: an empty LMK_KEY field of the file, read
\* as NULL. Two lodgement times, the row complete or without property
\* type, and one complete row of a certificate that has a key.
NullKeyRows ==
    [n \in 1..5 |->
        IF n = 5 THEN [DefaultRow EXCEPT !.LMK_KEY = KeyAt(1)]
        ELSE [DefaultRow EXCEPT
                !.LMK_KEY            = NULL,
                !.LODGEMENT_DATETIME = DedupStamps[((n - 1) % 2) + 1],
                !.PROPERTY_TYPE      = IF n <= 2 THEN <<"House">> ELSE NULL]]

NullKeyFiles == {[i \in 1..Len(f) |-> NullKeyRows[f[i]]] : f \in IndexTuples(Len(NullKeyRows))}

InitNullKey == InitWith(NullKeyFiles)

SpecNullKey == InitNullKey /\ [][Next]_vars

\* Replacement: the source file is another one from one run to the next.
\* The files hold complete rows of two certificates, a row any number of
\* times.
ReplaceRows == <<DefaultRow, [DefaultRow EXCEPT !.LMK_KEY = KeyAt(2)]>>

ReplaceFiles ==
    {[i \in 1..Len(f) |-> ReplaceRows[f[i]]] : f \in IndexTuples(Len(ReplaceRows))}

\* data/raw/certificates.csv is replaced while no run is under way.
ReplaceFile ==
    /\ pc \in {"idle", "exit", "aborted"}
    /\ csv' \in ReplaceFiles \ {csv}
    /\ UNCHANGED <<bronze, silver, features, agg, pc, out, b, s, g, err, runs, completed, api>>

InitReplace == InitWith(ReplaceFiles)

NextReplace == Next \/ ReplaceFile

SpecReplace == InitReplace /\ [][NextReplace]_vars

\* ------------------------------------------------------ the query service
\* data/processed/housing.duckdb exists: bronze.run has connected to it.
StoreExists == runs >= 2 \/ (runs = 1 /\ pc # "bronze")

\* A stage of the pipeline has the store open for writing.
StoreInUse == pc \in {"bronze.create", "silver.create", "gold.features", "gold.agg"}

\* lifespan: predictor.get_predictor() loads the model and
\* db.get_connection() opens the store read-only; the service is up.
ServiceStart ==
    /\ api.state # "up"
    /\ StoreExists /\ ~StoreInUse
    /\ api' = [state |-> "up", error |-> NULL, response |-> NULL]
    /\ UNCHANGED <<csv, bronze, silver, features, agg, pc, out, b, s, g, err, runs, completed>>

\* predictor.get_predictor() raises in lifespan (a model file is missing):
\* the service does not start.
ServiceStartRaiseModel ==
    /\ api.state # "up"
    /\ api' = [state |-> "failed", error |-> <<"model">>, response |-> NULL]
    /\ UNCHANGED <<csv, bronze, silver, features, agg, pc, out, b, s, g, err, runs, completed>>

\* db.get_connection() raises in lifespan: duckdb.connect(read_only=True)
\* of a file that does not exist. The service does not start.
ServiceStartRaiseStore ==
    /\ api.state # "up"
    /\ ~StoreExists
    /\ api' = [state |-> "failed", error |-> <<"store">>, response |-> NULL]
    /\ UNCHANGED <<csv, bronze, silver, features, agg, pc, out, b, s, g, err, runs, completed>>

\* db.get_connection() raises in lifespan: a stage of the pipeline has the
\* store open for writing.
ServiceStartRaiseLocked ==
    /\ api.state # "up"
    /\ StoreExists /\ StoreInUse
    /\ api' = [state |-> "failed", error |-> <<"lock">>, response |-> NULL]
    /\ UNCHANGED <<csv, bronze, silver, features, agg, pc, out, b, s, g, err, runs, completed>>

\* duckdb.connect of a stage raises: the query service holds the store
\* open. The stage has printed its first line and changed no table.
StageConnectRaise ==
    /\ pc \in {"bronze", "silver", "gold"}
    /\ api.state = "up"
    /\ out' = Append(out, IF pc = "bronze" THEN "bronze.start"
                          ELSE IF pc = "silver" THEN "silver.start" ELSE "gold.start")
    /\ err' = <<pc>>
    /\ pc' = Raised(pc)
    /\ UNCHANGED <<csv, bronze, silver, features, agg, b, s, g, runs, completed, api>>

\* "ok" if (db_ok and model_ok) else "degraded"
HealthStatus(db_ok, model_ok) == IF db_ok /\ model_ok THEN <<"ok">> ELSE <<"degraded">>

\* GET /health of the service that is up: the COUNT(*) of
\* gold.epc_features, or the except branch when the table is not there;
\* get_predictor() returns the predictor that lifespan loaded.
Health ==
    /\ api.state = "up"
    /\ LET db_ok == features.present
           count == IF db_ok THEN Len(features.rows) ELSE 0
           model_ok == TRUE
       IN  api' = [api EXCEPT !.response =
                      <<[status         |-> HealthStatus(db_ok, model_ok),
                         model_loaded   |-> model_ok,
                         db_connected   |-> db_ok,
                         property_count |-> count]>>]
    /\ UNCHANGED <<csv, bronze, silver, features, agg, pc, out, b, s, g, err, runs, completed>>

\* GET /health of the service that did not start: nothing answers.
HealthRefused ==
    /\ api.state = "failed"
    /\ api' = [api EXCEPT !.response =
                  <<[status         |-> <<"no answer">>,
                     model_loaded   |-> FALSE,
                     db_connected   |-> FALSE,
                     property_count |-> 0]>>]
    /\ UNCHANGED <<csv, bronze, silver, features, agg, pc, out, b, s, g, err, runs, completed>>

\* The service process ends.
ServiceStop ==
    /\ api.state = "up"
    /\ api' = [state |-> "stopped", error |-> NULL, response |-> NULL]
    /\ UNCHANGED <<csv, bronze, silver, features, agg, pc, out, b, s, g, err, runs, completed>>

InitService == InitWith(ReplaceFiles)

NextService ==
    \/ Next
    \/ ServiceStart \/ ServiceStartRaiseModel \/ ServiceStartRaiseStore
    \/ ServiceStartRaiseLocked \/ StageConnectRaise
    \/ Health \/ HealthRefused \/ ServiceStop

SpecService == InitService /\ [][NextService]_vars

\* python -m src.etl.gold: gold.run alone, on a store whose
\* silver.epc_clean is not the Normalizer's work. Its rows are clean rows
\* of two keys, with potential efficiencies that give the scores 20 and
\* 10 and one out of range; a key may occur in several rows.
BuilderPotentials == << <<"7", "0">>, <<"6", "0">>, <<"1", "0", "1">> >>

BuilderRows ==
    [n \in 1..(2 * Len(BuilderPotentials)) |->
        CleanRow([DefaultRow EXCEPT
            !.LMK_KEY                     = KeyAt(((n - 1) % 2) + 1),
            !.POTENTIAL_ENERGY_EFFICIENCY = BuilderPotentials[((n - 1) \div 2) + 1]])]

CleanTables ==
    {[i \in 1..Len(f) |-> BuilderRows[f[i]]] : f \in IndexTuples(Len(BuilderRows))}

InitBuilder ==
    /\ csv = <<>>
    /\ bronze = Absent
    /\ silver \in {Table(rows) : rows \in CleanTables}
    /\ features = Absent
    /\ agg = [present |-> FALSE, rows |-> {}]
    /\ pc = "gold"
    /\ out = <<>>
    /\ b = NULL /\ s = NULL /\ g = NULL
    /\ err = NULL
    /\ runs = 0
    /\ completed = <<>>
    /\ api = [state |-> "down", error |-> NULL, response |-> NULL]

NextBuilder == GoldStart \/ GoldFeatures \/ GoldFeaturesRaise \/ GoldAgg \/ GoldAggRaise

SpecBuilder == InitBuilder /\ [][NextBuilder]_vars

\* ------------------------------------------------------------ properties
Range(q) == {q[i] : i \in 1..Len(q)}

Count(q, r) == Cardinality({i \in 1..Len(q) : q[i] = r})

\* Two tables hold the same rows, each as many times.
SameRows(q1, q2) == \A r \in Range(q1) \cup Range(q2) : Count(q1, r) = Count(q2, r)

\* The landing rows with the key of landing row i.
Duplicates(i) == {j \in 1..Len(bronze.rows) : bronze.rows[j].LMK_KEY = bronze.rows[i].LMK_KEY}

\* Landing row m has the maximum lodgement timestamp among the rows of its key.
Latest(m) ==
    \A j \in Duplicates(m) :
        ~TextLess(bronze.rows[m].LODGEMENT_DATETIME, bronze.rows[j].LODGEMENT_DATETIME)

\* The CleanRecord rows with the key of landing row i.
CleanOf(i) == {j \in 1..Len(silver.rows) : silver.rows[j].lmk_key = bronze.rows[i].LMK_KEY}

\* silver.epc_clean as the Normalizer built it from the present landing table.
Normalized == bronze.present /\ silver.present

\* The duplicates of landing row i have pairwise different timestamps, so
\* that one of them is the latest.
DistinctStamps(i) ==
    \A m, n \in Duplicates(i) :
        bronze.rows[m].LODGEMENT_DATETIME = bronze.rows[n].LODGEMENT_DATETIME => m = n

\* C1, as stated: every business key that occurs in two or more landing
\* rows has exactly one row in CleanRecord, and it is the row with the
\* maximum lodgement timestamp among those duplicates. Stated of the keys
\* whose duplicates have different timestamps, where the row with the
\* maximum is one row.
C1_ExactlyOneSurvives ==
    Normalized =>
        \A i \in 1..Len(bronze.rows) :
            (Cardinality(Duplicates(i)) >= 2 /\ DistinctStamps(i)) =>
                /\ Cardinality(CleanOf(i)) = 1
                /\ \A j \in CleanOf(i) :
                      \E m \in Duplicates(i) : Latest(m) /\ silver.rows[j] = CleanRow(bronze.rows[m])

\* C1, amended: every business key that occurs in two or more landing rows
\* has at most one row in CleanRecord; such a row comes from a duplicate
\* with the maximum lodgement timestamp whose three mandatory source
\* fields are present; there is exactly one when every duplicate with the
\* maximum timestamp has the three fields, and none when none has.
C1_LatestSurvivesIfComplete ==
    Normalized =>
        \A i \in 1..Len(bronze.rows) :
            LET dup == Duplicates(i)
                kept == CleanOf(i)
                latest == {m \in dup : Latest(m)}
                complete(m) ==
                    /\ bronze.rows[m].CURRENT_ENERGY_EFFICIENCY # NULL
                    /\ bronze.rows[m].POTENTIAL_ENERGY_EFFICIENCY # NULL
                    /\ bronze.rows[m].PROPERTY_TYPE # NULL
            IN  Cardinality(dup) >= 2 =>
                    /\ Cardinality(kept) <= 1
                    /\ \A j \in kept :
                          \E m \in latest : complete(m) /\ silver.rows[j] = CleanRow(bronze.rows[m])
                    /\ (\A m \in latest : complete(m)) => Cardinality(kept) = 1
                    /\ (\A m \in latest : ~complete(m)) => kept = {}

\* A key with an older and a newer landing row, and its row in CleanRecord.
C1_Witness ==
    /\ Normalized
    /\ pc = "gold"
    /\ \E i, j \in 1..Len(bronze.rows) :
          /\ j \in Duplicates(i)
          /\ TextLess(bronze.rows[j].LODGEMENT_DATETIME, bronze.rows[i].LODGEMENT_DATETIME)
          /\ CleanRow(bronze.rows[j]) # CleanRow(bronze.rows[i])
          /\ CleanOf(i) # {}

\* C2, as stated: every CleanRecord row has a non-null current_efficiency,
\* a non-null potential_efficiency and a non-null property_type, also when
\* the source text of an efficiency does not parse as an integer.
C2_MandatoryNonNull ==
    silver.present =>
        \A j \in 1..Len(silver.rows) :
            /\ silver.rows[j].current_efficiency # NULL
            /\ silver.rows[j].potential_efficiency # NULL
            /\ silver.rows[j].property_type # NULL

\* C3: no two rows of CleanRecord share a business key, and no two rows of
\* FeatureRecord share a business key.
C3_KeysUnique ==
    /\ \A i, j \in 1..Len(silver.rows) :
          silver.rows[i].lmk_key = silver.rows[j].lmk_key => i = j
    /\ \A i, j \in 1..Len(features.rows) :
          features.rows[i].lmk_key = features.rows[j].lmk_key => i = j

\* A completed run over a landing table with duplicates of a key, the key
\* in CleanRecord and in FeatureRecord.
C3_Witness ==
    /\ pc = "exit"
    /\ \E i \in 1..Len(bronze.rows) :
          /\ Cardinality(Duplicates(i)) >= 2
          /\ CleanOf(i) # {}
          /\ \E j \in 1..Len(features.rows) : features.rows[j].lmk_key = bronze.rows[i].LMK_KEY
    /\ Len(silver.rows) >= 2

\* C4, as stated: two runs of the full pipeline on the same unchanged
\* input leave the same CleanRecord, FeatureRecord and PortfolioSegment
\* tables, also when duplicates of a key have the same lodgement timestamp.
C4_Idempotent ==
    \A m, n \in 1..Len(completed) :
        /\ SameRows(completed[m].clean.rows, completed[n].clean.rows)
        /\ SameRows(completed[m].features.rows, completed[n].features.rows)
        /\ completed[m].agg = completed[n].agg

\* The position of the first line e in what the run printed, 0 when the
\* run has not printed it.
PrintedAt(e) ==
    IF \E i \in 1..Len(out) : out[i] = e
    THEN CHOOSE i \in 1..Len(out) : out[i] = e /\ \A j \in 1..(i - 1) : out[j] # e
    ELSE 0

Printed(e) == PrintedAt(e) > 0

\* C5: in every run the Normalizer starts only after the Ingestor has
\* finished writing the landing table, the Feature/Aggregation Builder
\* only after the Normalizer has finished writing CleanRecord, and the
\* stages run in the order bronze, silver, gold.
C5_StageOrdering ==
    /\ Printed("silver.start") =>
          /\ Printed("bronze.done")
          /\ PrintedAt("bronze.start") < PrintedAt("bronze.done")
          /\ PrintedAt("bronze.done") < PrintedAt("silver.start")
          /\ bronze = Table(csv)
    /\ Printed("gold.start") =>
          /\ Printed("silver.done")
          /\ PrintedAt("silver.start") < PrintedAt("silver.done")
          /\ PrintedAt("silver.done") < PrintedAt("gold.start")
          /\ silver.present
    /\ \A e \in {"bronze.start", "silver.start", "gold.start"} : Count(out, e) <= 1
    /\ pc \in {"silver", "silver.create"} => Printed("bronze.done")
    /\ pc \in {"gold", "gold.features", "gold.agg"} => Printed("silver.done")

\* The Feature/Aggregation Builder at work, the two earlier stages done.
C5_Witness ==
    /\ pc = "gold.agg"
    /\ out = <<"pipeline.header", "bronze.start", "bronze.done",
               "silver.start", "silver.done", "gold.start">>
    /\ Len(bronze.rows) >= 2

StartOf(stage) ==
    IF stage = "bronze" THEN "bronze.start"
    ELSE IF stage = "silver" THEN "silver.start"
    ELSE "gold.start"

\* C6: when a stage raises, no later stage is started in that run and no
\* completion summary is emitted; the summary is emitted only after all
\* three stages have completed.
C6_AbortOnFailure ==
    /\ err # NULL =>
          /\ pc = "aborted"
          /\ out[Len(out)] = StartOf(err[1])
          /\ ~Printed("pipeline.complete")
    /\ Printed("pipeline.complete") =>
          /\ err = NULL
          /\ Printed("bronze.done") /\ Printed("silver.done") /\ Printed("gold.done")
          /\ out[Len(out)] = "pipeline.complete"
          /\ b # NULL /\ s # NULL /\ g # NULL

\* A run that the Normalizer's exception ended, after a run that completed.
C6_Witness ==
    /\ err = <<"silver">>
    /\ pc = "aborted"
    /\ Len(completed) = 1
    /\ out = <<"pipeline.header", "bronze.start", "bronze.done", "silver.start">>

\* The FeatureRecord rows with the key of CleanRecord row i.
FeaturesOf(i) == {j \in 1..Len(features.rows) : features.rows[j].lmk_key = silver.rows[i].lmk_key}

\* C7: retrofit_priority is 'High' if retrofit_score >= 20, 'Medium' if
\* 10 <= retrofit_score <= 19, and 'Low' if retrofit_score <= 9 (every
\* negative score included), for every FeatureRecord row.
C7_ScoreBuckets ==
    \A j \in 1..Len(features.rows) :
        LET f == features.rows[j]
        IN  /\ f.retrofit_score # NULL
            /\ f.retrofit_score[1] >= 20 => f.retrofit_priority = <<"High">>
            /\ (f.retrofit_score[1] >= 10 /\ f.retrofit_score[1] <= 19)
                  => f.retrofit_priority = <<"Medium">>
            /\ f.retrofit_score[1] <= 9 => f.retrofit_priority = <<"Low">>
            /\ f.retrofit_priority \in {<<"High">>, <<"Medium">>, <<"Low">>}

\* FeatureRecord with the scores 20, 19 and a negative one.
C7_Witness ==
    /\ features.present
    /\ \E j \in 1..Len(features.rows) :
          features.rows[j].retrofit_score = <<20>> /\ features.rows[j].retrofit_priority = <<"High">>
    /\ \E j \in 1..Len(features.rows) :
          features.rows[j].retrofit_score = <<19>> /\ features.rows[j].retrofit_priority = <<"Medium">>
    /\ \E j \in 1..Len(features.rows) :
          features.rows[j].retrofit_score[1] < 0 /\ features.rows[j].retrofit_priority = <<"Low">>

\* FeatureRecord with the scores 10 and 9.
C7_WitnessLower ==
    /\ features.present
    /\ \E j \in 1..Len(features.rows) :
          features.rows[j].retrofit_score = <<10>> /\ features.rows[j].retrofit_priority = <<"Medium">>
    /\ \E j \in 1..Len(features.rows) :
          features.rows[j].retrofit_score = <<9>> /\ features.rows[j].retrofit_priority = <<"Low">>

\* gold.epc_features as the Feature Builder of this run built it from the
\* present CleanRecord.
Featured == silver.present /\ features.present /\ Printed("gold.start")

\* C8: FeatureRecord has exactly one row for each CleanRecord row whose
\* current_efficiency and potential_efficiency are both in [1,100], no row
\* for any other CleanRecord row (a null value included), no row that is
\* not of a CleanRecord row, and retrofit_score = potential_efficiency -
\* current_efficiency in each row.
C8_FeatureMembership ==
    Featured =>
        /\ \A i \in 1..Len(silver.rows) :
              LET c == silver.rows[i]
                  inRange == /\ c.current_efficiency # NULL
                             /\ c.potential_efficiency # NULL
                             /\ c.current_efficiency[1] \in 1..100
                             /\ c.potential_efficiency[1] \in 1..100
              IN  Cardinality(FeaturesOf(i)) = (IF inRange THEN 1 ELSE 0)
        /\ \A j \in 1..Len(features.rows) :
              LET f == features.rows[j]
              IN  /\ \E i \in 1..Len(silver.rows) :
                        /\ silver.rows[i].lmk_key = f.lmk_key
                        /\ silver.rows[i].current_efficiency = f.current_efficiency
                        /\ silver.rows[i].potential_efficiency = f.potential_efficiency
                  /\ f.retrofit_score = <<f.potential_efficiency[1] - f.current_efficiency[1]>>

\* CleanRecord with a row in range, a row out of range and a row with a
\* null efficiency; FeatureRecord with the first only.
C8_Witness ==
    /\ Featured
    /\ pc = "gold.agg"
    /\ Len(features.rows) = 1
    /\ \E i \in 1..Len(silver.rows) : Cardinality(FeaturesOf(i)) = 1
    /\ \E i \in 1..Len(silver.rows) :
          /\ silver.rows[i].potential_efficiency # NULL
          /\ silver.rows[i].potential_efficiency[1] > 100
    /\ \E i \in 1..Len(silver.rows) :
          silver.rows[i].current_efficiency = NULL \/ silver.rows[i].potential_efficiency = NULL

\* A missing cost counts as 0.
OrZero(v) == IF v = NULL THEN 0 ELSE v[1]

\* C9: total_cost_current, total_cost_potential and
\* annual_savings_potential are never null, each missing category cost
\* counts as 0, and a record with the three current costs present and the
\* three potential costs null has annual_savings_potential equal to the
\* sum of its current costs and total_cost_potential = 0.
C9_NullSafeSums ==
    Featured =>
        \A i \in 1..Len(silver.rows) : \A j \in FeaturesOf(i) :
            LET c == silver.rows[i]
                f == features.rows[j]
                current == OrZero(c.heating_cost_current) + OrZero(c.hot_water_cost_current)
                           + OrZero(c.lighting_cost_current)
                potential == OrZero(c.heating_cost_potential) + OrZero(c.hot_water_cost_potential)
                             + OrZero(c.lighting_cost_potential)
            IN  /\ f.total_cost_current # NULL
                /\ f.total_cost_potential # NULL
                /\ f.annual_savings_potential # NULL
                /\ f.total_cost_current = <<current>>
                /\ f.total_cost_potential = <<potential>>
                /\ f.annual_savings_potential =
                      <<(OrZero(c.heating_cost_current) - OrZero(c.heating_cost_potential))
                        + (OrZero(c.hot_water_cost_current) - OrZero(c.hot_water_cost_potential))
                        + (OrZero(c.lighting_cost_current) - OrZero(c.lighting_cost_potential))>>
                /\ ( /\ c.heating_cost_current # NULL
                     /\ c.hot_water_cost_current # NULL
                     /\ c.lighting_cost_current # NULL
                     /\ c.heating_cost_potential = NULL
                     /\ c.hot_water_cost_potential = NULL
                     /\ c.lighting_cost_potential = NULL )
                   => /\ f.annual_savings_potential =
                            <<c.heating_cost_current[1] + c.hot_water_cost_current[1]
                              + c.lighting_cost_current[1]>>
                      /\ f.total_cost_potential = <<0>>

\* A record with the three current costs and no potential cost, in
\* FeatureRecord.
C9_Witness ==
    /\ Featured
    /\ \E i \in 1..Len(silver.rows) :
          /\ silver.rows[i].heating_cost_current = <<800>>
          /\ silver.rows[i].hot_water_cost_current = <<200>>
          /\ silver.rows[i].lighting_cost_current = <<100>>
          /\ silver.rows[i].heating_cost_potential = NULL
          /\ silver.rows[i].hot_water_cost_potential = NULL
          /\ silver.rows[i].lighting_cost_potential = NULL
          /\ \E j \in FeaturesOf(i) : features.rows[j].annual_savings_potential = <<1100>>

\* The FeatureRecord rows with the key of a PortfolioSegment row.
Members(a) ==
    {j \in 1..Len(features.rows) :
        /\ features.rows[j].property_type = a.property_type
        /\ features.rows[j].construction_age_band = a.construction_age_band
        /\ features.rows[j].retrofit_priority = a.retrofit_priority}

RECURSIVE ScoreSum(_)
ScoreSum(J) ==
    IF J = {} THEN 0
    ELSE LET j == CHOOSE x \in J : TRUE
         IN  features.rows[j].retrofit_score[1] + ScoreSum(J \ {j})

\* gold.portfolio_agg as the Aggregation Builder built it from the present
\* FeatureRecord.
Aggregated == features.present /\ agg.present

\* C10, as stated: property_count is the number of FeatureRecord rows with
\* the segment's key and avg_retrofit_score (in tenths) is the mean of
\* retrofit_score over exactly those rows.
C10_AvgIsMean ==
    Aggregated =>
        \A a \in agg.rows :
            /\ a.property_count = Cardinality(Members(a))
            /\ a.avg_retrofit_score * Cardinality(Members(a)) = 10 * ScoreSum(Members(a))

\* C10, amended: property_count is the number of FeatureRecord rows with
\* the segment's key and avg_retrofit_score is the mean of retrofit_score
\* over exactly those rows rounded to one decimal place: a multiple of 0.1
\* at most 0.05 from the mean.
C10_AvgIsRoundedMean ==
    Aggregated =>
        \A a \in agg.rows :
            LET n == Cardinality(Members(a))
                d == a.avg_retrofit_score * n - 10 * ScoreSum(Members(a))
            IN  /\ a.property_count = n
                /\ n >= 1
                /\ 2 * d <= n /\ 2 * (0 - d) <= n

\* A segment of three records whose mean score is not a multiple of 0.1.
C10_Witness ==
    /\ Aggregated
    /\ pc = "summary"
    /\ \E a \in agg.rows :
          /\ a.property_count = 3
          /\ ScoreSum(Members(a)) % 3 # 0

\* The PortfolioSegment rows with the three key columns of FeatureRecord
\* row j, a null age band being a value like any other.
SegmentsOf(j) ==
    {a \in agg.rows :
        /\ a.property_type = features.rows[j].property_type
        /\ a.construction_age_band = features.rows[j].construction_age_band
        /\ a.retrofit_priority = features.rows[j].retrofit_priority}

\* C11: PortfolioSegment has exactly one row for each combination of
\* property_type, construction_age_band and retrofit_priority that occurs
\* in FeatureRecord (a null age band is a value of its own), no row for a
\* combination that does not occur, and so every property_count >= 1.
C11_SegmentSet ==
    Aggregated =>
        /\ \A j \in 1..Len(features.rows) : Cardinality(SegmentsOf(j)) = 1
        /\ \A a \in agg.rows :
              /\ Members(a) # {}
              /\ a.property_count >= 1

\* Three records in two segments: two of one age band, one without age
\* band, all of one property type and priority.
C11_Witness ==
    /\ Aggregated
    /\ pc = "summary"
    /\ Len(features.rows) = 3
    /\ Cardinality(agg.rows) = 2
    /\ \E a1, a2 \in agg.rows :
          /\ a1.construction_age_band = NULL
          /\ a2.construction_age_band # NULL
          /\ a1.retrofit_priority = a2.retrofit_priority
          /\ a1.property_count = 1
          /\ a2.property_count = 2

\* The stage that run_pipeline.run is in.
InIngestor == pc \in {"bronze", "bronze.create"}

InNormalizer == pc \in {"silver", "silver.create"}

InBuilder == pc \in {"gold", "gold.features", "gold.agg"}

\* C12: every step of the Ingestor, a step that raises included, leaves
\* silver.epc_clean, gold.epc_features and gold.portfolio_agg as they are;
\* every step of the Normalizer leaves bronze.epc_raw and the two gold
\* tables as they are; every step of the Builder leaves bronze.epc_raw and
\* silver.epc_clean as they are; a step outside the stages changes no table.
C12_StageOwnership ==
    [][ /\ InIngestor => UNCHANGED <<silver, features, agg>>
        /\ InNormalizer => UNCHANGED <<bronze, features, agg>>
        /\ InBuilder => UNCHANGED <<bronze, silver>>
        /\ ~(InIngestor \/ InNormalizer \/ InBuilder)
              => UNCHANGED <<bronze, silver, features, agg>> ]_vars

\* The Normalizer has failed in the second run: the landing table of this
\* run and the gold tables of the first run are there, with rows.
C12_Witness ==
    /\ err = <<"silver">>
    /\ runs = 2
    /\ Len(completed) = 1
    /\ bronze = Table(csv)
    /\ features = completed[1].features
    /\ agg = completed[1].agg
    /\ features.present /\ features.rows # <<>>
    /\ agg.present /\ agg.rows # {}

\* Every earlier run of the pipeline completed, and there is one: the run
\* found the four tables as the last completed run left them.
AfterCompletedRun == Len(completed) >= 1 /\ runs = Len(completed) + 1

\* C13, as stated: when the Ingestor fails (the source file is missing,
\* unreadable or unparseable), the run aborts before any table is written:
\* the landing table of the previous run is still present and unchanged,
\* and so are the other tables. Stated of a run that follows a completed
\* run over the same file.
C13_FailureKeepsLanding ==
    (err = <<"bronze">> /\ AfterCompletedRun) =>
        /\ bronze = Table(csv)
        /\ silver = completed[Len(completed)].clean
        /\ features = completed[Len(completed)].features
        /\ agg = completed[Len(completed)].agg

\* C14, as stated: if a stage fails after it has started, each table the
\* stage owns is afterwards either the complete table of the previous run
\* or the complete table of the new run, never absent or partly written,
\* and gold.epc_features is never the rebuilt one while
\* gold.portfolio_agg is missing. Stated of the Normalizer and the Builder
\* in a run that follows a completed run.
C14_NoPartialUpdate ==
    (err # NULL /\ AfterCompletedRun) =>
        LET last == completed[Len(completed)]
        IN  /\ err = <<"silver">> =>
                  \/ silver = last.clean
                  \/ /\ silver.present
                     /\ \E S \in RowNumberOne(bronze.rows) :
                           silver.rows = EpcClean(bronze.rows, S)
            /\ err = <<"gold">> =>
                  /\ \/ features = last.features
                     \/ features = Table(EpcFeatures(silver.rows))
                  /\ \/ agg = last.agg
                     \/ /\ features.present
                        /\ agg = [present |-> TRUE, rows |-> PortfolioAgg(features.rows)]
                  /\ ~(features.present /\ ~agg.present)

\* No row of CleanRecord is the clean form of landing row i.
NotRepresented(i) ==
    \A j \in 1..Len(silver.rows) : silver.rows[j] # CleanRow(bronze.rows[i])

\* One of the three mandatory source fields of landing row i is missing.
LacksMandatory(i) ==
    \/ bronze.rows[i].CURRENT_ENERGY_EFFICIENCY = NULL
    \/ bronze.rows[i].POTENTIAL_ENERGY_EFFICIENCY = NULL
    \/ bronze.rows[i].PROPERTY_TYPE = NULL

\* One of the two efficiency texts of landing row i is no integer.
Uncoercible(i) ==
    \/ ParseNumber(bronze.rows[i].CURRENT_ENERGY_EFFICIENCY) = NULL
    \/ ParseNumber(bronze.rows[i].POTENTIAL_ENERGY_EFFICIENCY) = NULL

\* C15, as stated: every landing row that is not represented in
\* CleanRecord (every row the dropped count includes) has at least one of
\* current efficiency, potential efficiency and property type missing or
\* uncoercible in the source.
C15_DroppedLackMandatory ==
    Normalized =>
        \A i \in 1..Len(bronze.rows) :
            NotRepresented(i) => (LacksMandatory(i) \/ Uncoercible(i))

\* C15, amended: every landing row that is not represented in CleanRecord
\* either has another landing row of its business key lodged at the same
\* time or later, or has at least one of current efficiency, potential
\* efficiency and property type missing in the source.
C15_DroppedLackMandatoryOrSuperseded ==
    Normalized =>
        \A i \in 1..Len(bronze.rows) :
            NotRepresented(i) =>
                \/ \E m \in Duplicates(i) \ {i} :
                      ~TextLess(bronze.rows[m].LODGEMENT_DATETIME,
                                bronze.rows[i].LODGEMENT_DATETIME)
                \/ LacksMandatory(i)

\* A key with two landing rows: the older one complete and superseded, the
\* newer one without property type; neither is in CleanRecord, and the
\* Normalizer reports two dropped rows.
C15_Witness ==
    /\ Normalized
    /\ pc = "gold"
    /\ s # NULL /\ s[1].dropped >= 2
    /\ \E i, m \in 1..Len(bronze.rows) :
          /\ m \in Duplicates(i)
          /\ TextLess(bronze.rows[i].LODGEMENT_DATETIME, bronze.rows[m].LODGEMENT_DATETIME)
          /\ NotRepresented(i) /\ ~LacksMandatory(i) /\ ~Uncoercible(i)
          /\ NotRepresented(m) /\ LacksMandatory(m)

\* The CleanRecord column of each numeric landing column other than the
\* two efficiencies.
CastFields ==
    [TOTAL_FLOOR_AREA         |-> "total_floor_area",
     NUMBER_HABITABLE_ROOMS   |-> "num_habitable_rooms",
     CO2_EMISSIONS_CURRENT    |-> "co2_current",
     CO2_EMISSIONS_POTENTIAL  |-> "co2_potential",
     HEATING_COST_CURRENT     |-> "heating_cost_current",
     HEATING_COST_POTENTIAL   |-> "heating_cost_potential",
     HOT_WATER_COST_CURRENT   |-> "hot_water_cost_current",
     HOT_WATER_COST_POTENTIAL |-> "hot_water_cost_potential",
     LIGHTING_COST_CURRENT    |-> "lighting_cost_current",
     LIGHTING_COST_POTENTIAL  |-> "lighting_cost_potential"]

\* C16: when the text of floor area, habitable room count, a CO2 value or
\* one of the six category costs is no number, that field is null in
\* CleanRecord, the row is kept, every other field has the value of its
\* own source text, and the Normalizer can complete. Stated of the landing
\* rows that are alone with their key and have the three mandatory fields.
C16_TryCastPolicy ==
    /\ (pc = "silver.create" /\ bronze.present) => ENABLED SilverCreate
    /\ Normalized =>
          \A i \in 1..Len(bronze.rows) :
              (Cardinality(Duplicates(i)) = 1 /\ ~LacksMandatory(i)) =>
                  /\ Cardinality(CleanOf(i)) = 1
                  /\ \A j \in CleanOf(i) :
                        /\ \A col \in DOMAIN CastFields :
                              /\ ParseNumber(bronze.rows[i][col]) = NULL
                                    => silver.rows[j][CastFields[col]] = NULL
                              /\ ParseNumber(bronze.rows[i][col]) # NULL
                                    => silver.rows[j][CastFields[col]]
                                          = ParseNumber(bronze.rows[i][col])
                        /\ silver.rows[j].property_type = bronze.rows[i].PROPERTY_TYPE
                        /\ silver.rows[j].construction_age_band
                              = bronze.rows[i].CONSTRUCTION_AGE_BAND
                        /\ silver.rows[j].tenure = bronze.rows[i].TENURE

\* A certificate whose floor area and current CO2 are no numbers, in
\* CleanRecord with these two null and its other numbers kept.
C16_Witness ==
    /\ Normalized
    /\ pc = "gold"
    /\ \E i \in 1..Len(bronze.rows) :
          /\ bronze.rows[i].TOTAL_FLOOR_AREA = <<"x">>
          /\ bronze.rows[i].CO2_EMISSIONS_CURRENT = <<"x">>
          /\ \E j \in CleanOf(i) :
                /\ silver.rows[j].total_floor_area = NULL
                /\ silver.rows[j].co2_current = NULL
                /\ silver.rows[j].heating_cost_potential = <<90>>
                /\ silver.rows[j].num_habitable_rooms = <<90>>
                /\ silver.rows[j].co2_potential = <<90>>
                /\ silver.rows[j].heating_cost_current = <<90>>

\* Two rows of CleanRecord share a business key.
CleanKeysRepeat ==
    \E i, j \in 1..Len(silver.rows) :
        i # j /\ silver.rows[i].lmk_key = silver.rows[j].lmk_key

\* C17, as stated: when the Builder is given a CleanRecord in which two
\* rows share a business key, the stage aborts with a fatal error instead
\* of producing FeatureRecord and PortfolioSegment.
C17_AbortsOnRepeatedKey ==
    (Printed("gold.start") /\ silver.present /\ CleanKeysRepeat) =>
        /\ ~features.present
        /\ ~agg.present
        /\ g = NULL

\* The scale of the efficiency labels, from the lowest.
EffScale == << <<"Very Poor">>, <<"Poor">>, <<"Average">>, <<"Good">>, <<"Very Good">> >>

\* The label column of CleanRecord for each label column of the source,
\* and the score column for each label column of CleanRecord.
LabelFields ==
    [WALLS_ENERGY_EFF     |-> "walls_eff_label",
     ROOF_ENERGY_EFF      |-> "roof_eff_label",
     WINDOWS_ENERGY_EFF   |-> "windows_eff_label",
     MAINHEAT_ENERGY_EFF  |-> "heating_eff_label",
     HOT_WATER_ENERGY_EFF |-> "hot_water_eff_label",
     LIGHTING_ENERGY_EFF  |-> "lighting_eff_label"]

ScoreFields ==
    [walls_eff_label     |-> "walls_eff_score",
     roof_eff_label      |-> "roof_eff_score",
     windows_eff_label   |-> "windows_eff_score",
     heating_eff_label   |-> "heating_eff_score",
     hot_water_eff_label |-> "hot_water_eff_score",
     lighting_eff_label  |-> "lighting_eff_score"]

\* C18: for each of the six efficiency labels (walls, roof, windows,
\* heating, hot water, lighting) the score is 1 for 'Very Poor', 2 for
\* 'Poor', 3 for 'Average', 4 for 'Good', 5 for 'Very Good' and null for
\* any other or missing label, so every non-null score is in 1..5; the
\* label is the one of the source row.
C18_OrdinalMapping ==
    /\ silver.present =>
          \A j \in 1..Len(silver.rows) : \A f \in DOMAIN ScoreFields :
              LET label == silver.rows[j][f]
                  score == silver.rows[j][ScoreFields[f]]
              IN  /\ \A k \in 1..Len(EffScale) : label = EffScale[k] => score = <<k>>
                  /\ (\A k \in 1..Len(EffScale) : label # EffScale[k]) => score = NULL
                  /\ score # NULL => score[1] \in 1..5
    /\ Normalized =>
          \A i \in 1..Len(bronze.rows) : \A j \in CleanOf(i) :
              Cardinality(Duplicates(i)) = 1 =>
                  \A col \in DOMAIN LabelFields :
                      silver.rows[j][LabelFields[col]] = bronze.rows[i][col]

\* A certificate with walls 'Very Good', roof 'good', heating 'Good', hot
\* water 'Poor' and lighting 'Average', in CleanRecord with the scores 5,
\* null, 4, 2 and 3.
C18_Witness ==
    /\ Normalized
    /\ pc = "gold"
    /\ \E j \in 1..Len(silver.rows) :
          /\ bronze.rows[1].WALLS_ENERGY_EFF = <<"Very Good">>
          /\ silver.rows[j].walls_eff_score = <<5>>
          /\ silver.rows[j].roof_eff_label = <<"good">>
          /\ silver.rows[j].roof_eff_score = NULL
          /\ silver.rows[j].heating_eff_score = <<4>>
          /\ silver.rows[j].hot_water_eff_score = <<2>>
          /\ silver.rows[j].lighting_eff_score = <<3>>

\* A certificate with walls 'Very Poor' and no roof label, in CleanRecord
\* with the scores 1 and null.
C18_WitnessLowest ==
    /\ Normalized
    /\ \E j \in 1..Len(silver.rows) :
          /\ silver.rows[j].walls_eff_label = <<"Very Poor">>
          /\ silver.rows[j].walls_eff_score = <<1>>
          /\ silver.rows[j].roof_eff_label = NULL
          /\ silver.rows[j].roof_eff_score = NULL

\* The eight columns of CleanRecord that the data quality score counts.
QualityFields ==
    {"walls_description", "roof_description", "windows_description",
     "heating_description", "total_floor_area", "construction_age_band",
     "tenure", "main_fuel"}

\* How many of the eight are there in the source row i: a description,
\* the age band, the tenure and the fuel count when present, the floor
\* area when its text is a number.
SourceQuality(i) ==
    Cardinality({col \in {"WALLS_DESCRIPTION", "ROOF_DESCRIPTION", "WINDOWS_DESCRIPTION",
                          "MAINHEAT_DESCRIPTION", "CONSTRUCTION_AGE_BAND", "TENURE",
                          "MAIN_FUEL"} : bronze.rows[i][col] # NULL})
    + (IF ParseNumber(bronze.rows[i].TOTAL_FLOOR_AREA) # NULL THEN 1 ELSE 0)

\* C19: data_quality_score is 100 * k / 8 rounded to the nearest integer
\* (a half rounds up), k being the number of non-null fields among the
\* four descriptions, the parsed total_floor_area, construction_age_band,
\* tenure and main_fuel; it is never null and lies in 0..100.
C19_DataQualityScore ==
    /\ silver.present =>
          \A j \in 1..Len(silver.rows) :
              LET k == Cardinality({f \in QualityFields : silver.rows[j][f] # NULL})
                  q == silver.rows[j].data_quality_score
              IN  /\ q # NULL
                  /\ q[1] \in 0..100
                  /\ 2 * (8 * q[1] - 100 * k) <= 8
                  /\ 2 * (100 * k - 8 * q[1]) < 8
    /\ Normalized =>
          \A i \in 1..Len(bronze.rows) : \A j \in CleanOf(i) :
              Cardinality(Duplicates(i)) = 1 =>
                  Cardinality({f \in QualityFields : silver.rows[j][f] # NULL})
                      = SourceQuality(i)

\* A certificate without roof description and tenure and with a floor
\* area that is no number: five of the eight, and the score 63.
C19_Witness ==
    /\ Normalized
    /\ pc = "gold"
    /\ \E j \in 1..Len(silver.rows) :
          /\ bronze.rows[1].TOTAL_FLOOR_AREA = <<"x">>
          /\ silver.rows[j].total_floor_area = NULL
          /\ silver.rows[j].roof_description = NULL
          /\ silver.rows[j].tenure = NULL
          /\ Cardinality({f \in QualityFields : silver.rows[j][f] # NULL}) = 5
          /\ silver.rows[j].data_quality_score = <<63>>

\* The Ingestor of this run has completed and the run is under way, so
\* the source file is the one it read.
Ingested == Printed("bronze.done") /\ pc \notin {"idle", "exit", "aborted"}

\* C20: after a successful run of the Ingestor the landing table holds
\* exactly the rows of the given source file, one row a source row and a
\* repeated row as often as the file has it, and no row of an earlier
\* landing table; so ingesting the same file twice leaves the rows of
\* ingesting it once; the reported row count is the number of source rows.
C20_FullReplace ==
    Ingested =>
        /\ bronze.present
        /\ Len(bronze.rows) = Len(csv)
        /\ SameRows(bronze.rows, csv)
        /\ b # NULL
        /\ b[1].rows = Len(csv)

\* The second run has ingested a file with one row twice; CleanRecord,
\* still of the first run, has a key that the landing table has not.
C20_Witness ==
    /\ Ingested
    /\ runs = 2
    /\ pc = "silver"
    /\ Len(bronze.rows) = 2
    /\ bronze.rows[1] = bronze.rows[2]
    /\ b = <<[rows |-> 2]>>
    /\ silver.present
    /\ \E j \in 1..Len(silver.rows) :
          \A i \in 1..Len(bronze.rows) : silver.rows[j].lmk_key # bronze.rows[i].LMK_KEY

\* C21: the kept count the Normalizer reports is the number of rows of
\* CleanRecord, the dropped count it reports is the number of landing
\* rows minus the kept count, and the dropped count is never negative.
C21_NormalizerReport ==
    s # NULL =>
        /\ bronze.present /\ silver.present
        /\ s[1].rows = Len(silver.rows)
        /\ s[1].dropped = Len(bronze.rows) - s[1].rows
        /\ s[1].dropped >= 0

\* The Normalizer has reported one kept and two dropped rows of a landing
\* table of three: a superseded duplicate and a row without property type.
C21_Witness ==
    /\ s = <<[rows |-> 1, dropped |-> 2]>>
    /\ pc = "gold"
    /\ Len(bronze.rows) = 3
    /\ Len(silver.rows) = 1
    /\ \E i \in 1..Len(bronze.rows) : Cardinality(Duplicates(i)) = 2
    /\ \E i \in 1..Len(bronze.rows) :
          Cardinality(Duplicates(i)) = 1 /\ bronze.rows[i].PROPERTY_TYPE = NULL

\* C22, as stated: when the store or gold.epc_features does not exist yet,
\* the health operation of the query service does not fail: it answers
\* with status 'degraded', db_connected false and property_count 0; and it
\* answers with status 'ok' only when the table query and the model load
\* both succeeded.
C22_HealthTolerates ==
    api.response # NULL =>
        LET r == api.response[1]
        IN  /\ api.error = <<"store">> =>
                  /\ r.status = <<"degraded">>
                  /\ r.db_connected = FALSE
                  /\ r.property_count = 0
            /\ (api.state = "up" /\ ~features.present) =>
                  /\ r.status = <<"degraded">>
                  /\ r.db_connected = FALSE
                  /\ r.property_count = 0
            /\ r.status = <<"ok">> =>
                  /\ features.present
                  /\ r.db_connected /\ r.model_loaded

\* Landing row i was lodged strictly later than every other landing row of
\* its business key.
MostRecent(i) ==
    \A m \in Duplicates(i) \ {i} :
        TextLess(bronze.rows[m].LODGEMENT_DATETIME, bronze.rows[i].LODGEMENT_DATETIME)

\* CleanRecord has no row of the business key of landing row i.
KeyNotInClean(i) ==
    \A j \in 1..Len(silver.rows) : silver.rows[j].lmk_key # bronze.rows[i].LMK_KEY

\* C23: the Normalizer keeps the most recently lodged row of each key first
\* and applies the mandatory-field filter to that row: a key whose most
\* recent row lacks a mandatory field has no row in CleanRecord, even when
\* an older row of the key has all three.
C23_DedupBeforeFilter ==
    Normalized =>
        \A i \in 1..Len(bronze.rows) :
            (MostRecent(i) /\ LacksMandatory(i)) => KeyNotInClean(i)

\* A key whose most recent landing row has no property type and whose older
\* landing row has all three mandatory fields, after the Normalizer ran:
\* CleanRecord has no row of the key.
C23_Witness ==
    /\ Normalized
    /\ s # NULL
    /\ \E i \in 1..Len(bronze.rows) :
          /\ MostRecent(i)
          /\ bronze.rows[i].PROPERTY_TYPE = NULL
          /\ \E m \in Duplicates(i) \ {i} : ~LacksMandatory(m) /\ ~Uncoercible(m)
          /\ KeyNotInClean(i)

\* The landing rows without a business key.
NullKeyLanding == {i \in 1..Len(bronze.rows) : bronze.rows[i].LMK_KEY = NULL}

\* The rows of CleanRecord without a business key.
NullKeyClean == {j \in 1..Len(silver.rows) : silver.rows[j].lmk_key = NULL}

\* C24: the landing rows whose LMK_KEY is null are one partition of the
\* dedup, so CleanRecord has at most one row with a null key however many
\* such landing rows there are, and the dropped count the Normalizer
\* reports includes every other landing row with a null key.
C24_NullKeyOnePartition ==
    (Normalized /\ s # NULL) =>
        /\ Cardinality(NullKeyClean) <= 1
        /\ s[1].dropped >= Cardinality(NullKeyLanding) - Cardinality(NullKeyClean)

\* Three landing rows without a key, lodged at two times, after the
\* Normalizer ran: one of them is in CleanRecord and two are reported
\* dropped.
C24_Witness ==
    /\ Normalized
    /\ Cardinality(NullKeyLanding) = 3
    /\ \E i, m \in NullKeyLanding :
          bronze.rows[i].LODGEMENT_DATETIME # bronze.rows[m].LODGEMENT_DATETIME
    /\ Cardinality(NullKeyClean) = 1
    /\ s = <<[rows |-> 1, dropped |-> 2]>>

====
